---- MODULE Spec2Model ----
(***************************************************************************)
(* Model of TrugenbergerAlgorithm.py: a quantum associative memory built   *)
(* as a Qiskit circuit (storage_algorithm, retrieval_algorithm) and read   *)
(* back through Statevector.from_instruction.                              *)
(*                                                                         *)
(* The state vector is kept exactly.  An amplitude is a complex number     *)
(* whose real and imaginary parts are finite sums  c1*sqrt(r1) + ... of    *)
(* integer multiples of square roots of squarefree integers ("surds"),     *)
(* over one positive integer denominator shared by the whole vector.       *)
(* Every gate of the program (x, cx, ccx, mcx, cry with the find_angle     *)
(* schedule, h, p and controlled p with angles that are multiples of pi/6) *)
(* has entries of that form, so no rounding takes place.                   *)
(***************************************************************************)
EXTENDS Integers, Sequences, FiniteSets, TLC

\* ---------------------------------------------------------------- bounds
\* width of the registers i and m built by run_quantum_memory
Width == 3
\* longest list of patterns handed to storage_algorithm when storage runs alone
MaxN == 3
\* longest list of patterns stored before a retrieval
MaxRecall == 2
\* widest register handed to apply_pauli_from_int on its own
MaxWidth == 3
\* find_angle is called with j in -MaxJ .. MaxJ
MaxJ == 4

\* ------------------------------------------------------ integer helpers
RECURSIVE GCD(_, _)
Abs(a) == IF a < 0 THEN -a ELSE a
GCD(a, b) == IF b = 0 THEN Abs(a) ELSE GCD(Abs(b), Abs(a) % Abs(b))

RECURSIVE SumOver(_, _)
\* sum of f[x] for x in S
SumOver(S, f) ==
  IF S = {} THEN 0
  ELSE LET x == CHOOSE y \in S : TRUE IN f[x] + SumOver(S \ {x}, f)

RECURSIVE GcdOver(_, _)
\* gcd of f[x] for x in S (0 for the empty set)
GcdOver(S, f) ==
  IF S = {} THEN 0
  ELSE LET x == CHOOSE y \in S : TRUE IN GCD(f[x], GcdOver(S \ {x}, f))

\* largest g with g*g dividing n (n >= 1)
SqPart(n) ==
  CHOOSE g \in 1..n : /\ n % (g * g) = 0
                      /\ \A h \in (g + 1)..n : n % (h * h) # 0

\* bit q of the basis index b (Qiskit: qubit q is bit q, least significant first)
Bit(b, q) == (b \div (2 ^ q)) % 2
FlipBit(b, q) == IF Bit(b, q) = 1 THEN b - 2 ^ q ELSE b + 2 ^ q
ClearBit(b, q) == IF Bit(b, q) = 1 THEN b - 2 ^ q ELSE b
SetBit(b, q) == IF Bit(b, q) = 1 THEN b ELSE b + 2 ^ q

\* ------------------------------------------------------------ surds
\* A surd is a function from squarefree radicands r to nonzero integers c,
\* standing for the sum of c * sqrt(r).  The representation is unique.
SurdZero == [r \in {} |-> 0]
SurdInt(k) == IF k = 0 THEN SurdZero ELSE [r \in {1} |-> k]
\* sqrt(n) for an integer n >= 0
SurdSqrt(n) ==
  IF n = 0 THEN SurdZero
  ELSE LET g == SqPart(n) IN [r \in {n \div (g * g)} |-> g]

SurdCoef(a, r) == IF r \in DOMAIN a THEN a[r] ELSE 0
SurdAdd(a, b) ==
  IF DOMAIN a = {} THEN b
  ELSE IF DOMAIN b = {} THEN a
  ELSE
  [r \in {x \in (DOMAIN a) \cup (DOMAIN b) : SurdCoef(a, x) + SurdCoef(b, x) # 0}
     |-> SurdCoef(a, r) + SurdCoef(b, r)]
SurdScale(k, a) == IF k = 0 THEN SurdZero ELSE [r \in DOMAIN a |-> k * a[r]]
SurdNeg(a) == SurdScale(-1, a)
SurdSub(a, b) == SurdAdd(a, SurdNeg(b))
\* sqrt(r) * sqrt(s) = gcd(r,s) * sqrt((r/g) * (s/g)) for squarefree r, s
RadOver(r, s, g) == (r \div g) * (s \div g)
RadProd(r, s) == RadOver(r, s, GCD(r, s))
\* c*sqrt(s) times b: r |-> RadProd(r, s) is one-to-one and its own inverse
SurdTerm(c, b, r, s) == c * b[r] * GCD(r, s)
SurdMulTerm(s, c, b) ==
  [t \in {RadProd(r, s) : r \in DOMAIN b} |-> SurdTerm(c, b, RadProd(t, s), s)]
SurdMulOne(a, s, b) == SurdMulTerm(s, a[s], b)
SurdMul(a, b) ==
  IF DOMAIN a = {} \/ DOMAIN b = {} THEN SurdZero
  ELSE IF Cardinality(DOMAIN a) = 1 \/ Cardinality(DOMAIN b) = 1
  THEN IF Cardinality(DOMAIN a) = 1
       THEN SurdMulOne(a, CHOOSE r \in DOMAIN a : TRUE, b)
       ELSE SurdMulOne(b, CHOOSE r \in DOMAIN b : TRUE, a)
  ELSE
  LET pairs == (DOMAIN a) \X (DOMAIN b)
      term == [pr \in pairs |-> a[pr[1]] * b[pr[2]] * GCD(pr[1], pr[2])]
      coef(t) == SumOver({pr \in pairs : RadProd(pr[1], pr[2]) = t}, term)
      rads == {RadProd(pr[1], pr[2]) : pr \in pairs}
  IN [t \in {x \in rads : coef(x) # 0} |-> coef(t)]
SurdGcd(a) == GcdOver(DOMAIN a, a)
SurdDiv(a, k) == [r \in DOMAIN a |-> a[r] \div k]
\* a surd with no irrational part, and its value
SurdIsRational(a) == DOMAIN a \subseteq {1}
SurdRat(a) == SurdCoef(a, 1)

\* ------------------------------------------------------- complex numbers
Cplx(re, im) == [re |-> re, im |-> im]
CZero == Cplx(SurdZero, SurdZero)
CReal(a) == Cplx(a, SurdZero)
CInt(k) == CReal(SurdInt(k))
CAdd(x, y) ==
  IF x = CZero THEN y
  ELSE IF y = CZero THEN x
  ELSE Cplx(SurdAdd(x.re, y.re), SurdAdd(x.im, y.im))
CMul(x, y) ==
  IF x = CZero \/ y = CZero THEN CZero
  ELSE
  Cplx(SurdSub(SurdMul(x.re, y.re), SurdMul(x.im, y.im)),
       SurdAdd(SurdMul(x.re, y.im), SurdMul(x.im, y.re)))
CNeg(x) == Cplx(SurdNeg(x.re), SurdNeg(x.im))
CScale(k, x) == Cplx(SurdScale(k, x.re), SurdScale(k, x.im))
CGcd(x) == GCD(SurdGcd(x.re), SurdGcd(x.im))
CDiv(x, k) == Cplx(SurdDiv(x.re, k), SurdDiv(x.im, k))
\* squared modulus, a surd
CNorm2(x) == SurdAdd(SurdMul(x.re, x.re), SurdMul(x.im, x.im))

\* --------------------------------------------------------- state vector
\* Statevector.from_instruction(qc): amp maps the basis indices of nonzero
\* amplitude to a complex numerator; the amplitude is amp[b] / den.
BasisState(b) == [amp |-> [x \in {b} |-> CInt(1)], den |-> 1]
Support(S) == DOMAIN S.amp
AmpOf(S, b) == IF b \in DOMAIN S.amp THEN S.amp[b] ELSE CZero

\* lowest terms: divide every numerator and the denominator by their gcd
Reduce(S) ==
  LET gs == {CGcd(S.amp[b]) : b \in DOMAIN S.amp} \cup {S.den}
      g == GcdOver(gs, [k \in gs |-> k])
  IN IF g <= 1 THEN S
     ELSE [amp |-> [b \in DOMAIN S.amp |-> CDiv(S.amp[b], g)], den |-> S.den \div g]

\* A gate is a 2x2 matrix mat / d on the target qubit t, applied where every
\* control qubit in ctrls is 1.
Gate(ctrls, t, mat, d) == [ctrls |-> ctrls, t |-> t, mat |-> mat, d |-> d]

\* the matrix of x
XMat == << <<CZero, CInt(1)>>, <<CInt(1), CZero>> >>

\* a bit-flip of the target (x, cx, ccx, mcx) permutes the basis indices
IsFlip(g) == g.mat = XMat /\ g.d = 1
FlipIndex(b, g) == IF \A c \in g.ctrls : Bit(b, c) = 1 THEN FlipBit(b, g.t) ELSE b

RECURSIVE FlipsForward(_, _, _, _)
\* the basis index b is moved to by the bit-flips gates[k..j], in order
FlipsForward(b, gates, k, j) ==
  IF k > j THEN b ELSE FlipsForward(FlipIndex(b, gates[k]), gates, k + 1, j)
RECURSIVE FlipsBackward(_, _, _, _)
\* the basis index the bit-flips gates[k..j] move to b (each is its own inverse)
FlipsBackward(b, gates, k, j) ==
  IF k > j THEN b ELSE FlipsBackward(FlipIndex(b, gates[j]), gates, k, j - 1)
RECURSIVE FlipRunEnd(_, _)
\* the last position of the run of bit-flips that starts at position k
FlipRunEnd(gates, k) ==
  IF k < Len(gates) /\ IsFlip(gates[k + 1]) THEN FlipRunEnd(gates, k + 1) ELSE k
\* the bit-flips gates[k..j] applied in order
FlipGates(S, gates, k, j) ==
  [amp |-> [b \in {FlipsForward(y, gates, k, j) : y \in Support(S)}
              |-> S.amp[FlipsBackward(b, gates, k, j)]],
   den |-> S.den]

\* a phase gate (p, controlled p) multiplies the amplitudes whose controls
\* and target are 1; the others are scaled by the gate's denominator
IsDiagonal(g) == g.mat[1][2] = CZero /\ g.mat[2][1] = CZero /\ g.mat[1][1] = CInt(g.d)
DiagonalGate(S, g) ==
  [amp |-> [b \in Support(S) |->
              IF Bit(b, g.t) = 1 /\ \A c \in g.ctrls : Bit(b, c) = 1
              THEN CMul(g.mat[2][2], S.amp[b])
              ELSE CScale(g.d, S.amp[b])],
   den |-> S.den * g.d]

\* row[1] * a0 + row[2] * a1
RowTimes(row, a0, a1) ==
  IF row[1] = row[2] \/ row[1] = CNeg(row[2])
  THEN CMul(row[1], CAdd(a0, IF row[1] = row[2] THEN a1 ELSE CNeg(a1)))
  ELSE CAdd(CMul(row[1], a0), CMul(row[2], a1))

\* any other gate mixes the two amplitudes that differ in the target bit
MatrixGate(S, g) ==
  LET active(b) == \A c \in g.ctrls : Bit(b, c) = 1
      cand == Support(S) \cup {FlipBit(b, g.t) : b \in {y \in Support(S) : active(y)}}
      new(b) ==
        IF active(b)
        THEN RowTimes(g.mat[Bit(b, g.t) + 1],
                      AmpOf(S, ClearBit(b, g.t)), AmpOf(S, SetBit(b, g.t)))
        ELSE CScale(g.d, S.amp[b])
      newamp == [b \in cand |-> new(b)]
  IN IF newamp = << >> THEN S
     ELSE [amp |-> [b \in {y \in cand : newamp[y] # CZero} |-> newamp[b]],
           den |-> S.den * g.d]

ApplyGate(S, g) == IF IsDiagonal(g) THEN DiagonalGate(S, g) ELSE MatrixGate(S, g)

RECURSIVE RunFrom(_, _, _)
\* the gates from position k on, applied in order: a run of bit-flips is
\* applied as one permutation
RunFrom(S, gates, k) ==
  IF k > Len(gates) THEN S
  ELSE IF IsFlip(gates[k])
  THEN LET j == FlipRunEnd(gates, k)
           T == FlipGates(S, gates, k, j)
       IN IF T.amp # << >> THEN RunFrom(T, gates, j + 1) ELSE T
  ELSE LET T == ApplyGate(S, gates[k])
       IN IF T.amp # << >> THEN RunFrom(T, gates, k + 1) ELSE T
\* the state after appending the gates, in order, to a circuit in state S,
\* in lowest terms
Run(S, gates) == Reduce(RunFrom(S, gates, 1))

\* --------------------------------------------------------- gate library
\* variant: ccx that ignores its second control
ccx_one_control(c1, c2, t) == Gate({c1}, t, XMat, 1)
\* QuantumCircuit.x / cx / ccx / mcx
x(q) == Gate({}, q, XMat, 1)
cx(c, t) == Gate({c}, t, XMat, 1)
ccx(c1, c2, t) == Gate({c1, c2}, t, XMat, 1)
mcx(cs, t) == Gate({cs[k] : k \in DOMAIN cs}, t, XMat, 1)
\* QuantumCircuit.h: [[1, 1], [1, -1]] / sqrt(2) = [[s, s], [s, -s]] / 2, s = sqrt(2)
h(q) ==
  LET s == CReal(SurdSqrt(2))
      n == CReal(SurdNeg(SurdSqrt(2)))
  IN Gate({}, q, << <<s, s>>, <<s, n>> >>, 2)

\* 2*cos(k*pi/6) and 2*sin(k*pi/6)
TwoCos6(k) ==
  LET kk == k % 12
  IN CASE kk = 0 -> SurdInt(2)
       [] kk \in {1, 11} -> SurdSqrt(3)
       [] kk \in {2, 10} -> SurdInt(1)
       [] kk \in {3, 9} -> SurdZero
       [] kk \in {4, 8} -> SurdInt(-1)
       [] kk \in {5, 7} -> SurdNeg(SurdSqrt(3))
       [] kk = 6 -> SurdInt(-2)
TwoSin6(k) == TwoCos6(k - 3)
\* An angle num*pi/den of a phase gate; the registers of the program have
\* width 3, so the angles pi/(2n) and -pi/n are multiples of pi/6.
Angle(num, den) == [num |-> num, den |-> den]
Sixths(a) == (6 * a.num) \div a.den
\* diag(1, exp(i*a)) = diag(2, 2cos + i*2sin) / 2
PhaseMat(a) ==
  << <<CInt(2), CZero>>, <<CZero, Cplx(TwoCos6(Sixths(a)), TwoSin6(Sixths(a)))>> >>
\* QuantumCircuit.p and PhaseGate(a).control(1)
p(a, q) == Gate({}, q, PhaseMat(a), 2)
cp(a, c, t) == Gate({c}, t, PhaseMat(a), 2)

\* ------------------------------------------------- apply_pauli_from_int
RECURSIVE BinDigits(_)
\* the binary digits of value, most significant first ("{value:b}")
BinDigits(value) ==
  IF value < 2 THEN <<value>> ELSE Append(BinDigits(value \div 2), value % 2)
\* f"{value:0{width}b}": zero-padded on the left to at least width digits
bin_string(value, width) ==
  LET d == BinDigits(value)
  IN IF Len(d) >= width THEN d
     ELSE [k \in 1..width |-> IF k <= width - Len(d) THEN 0 ELSE d[k - (width - Len(d))]]
\* variant: the digits taken most significant first (reversed() dropped)
Reversed_dropped(s) == s
Reversed(s) == [k \in 1..Len(s) |-> s[Len(s) + 1 - k]]

RECURSIVE PauliLoop(_, _, _, _)
\* the loop of apply_pauli_from_int from position k (1-based) on: gates are
\* the x gates appended so far; indexing qubits past its end raises
PauliLoop(bits, qubits, k, gates) ==
  IF k > Len(bits) THEN [gates |-> gates, err |-> FALSE]
  ELSE IF bits[k] = 1
       THEN IF k > Len(qubits) THEN [gates |-> gates, err |-> TRUE]
            ELSE PauliLoop(bits, qubits, k + 1, Append(gates, x(qubits[k])))
       ELSE PauliLoop(bits, qubits, k + 1, gates)
apply_pauli_from_int(value, qubits) ==
  PauliLoop(Reversed(bin_string(value, Len(qubits))), qubits, 1, << >>)

\* ------------------------------------------------------------ find_angle
\* -2 * arccos(sqrt((j - 1) / j)).  The angle is kept as the fraction under
\* the root.  (j - 1) / j raises ZeroDivisionError for j = 0; for j < 0 the
\* quotient exceeds 1, so np.arccos returns nan (a warning, no exception).
\* variant: the "- 1" of (j - 1) / j left out, the angle is -2*arccos(1) = 0
find_angle_no_minus(j) ==
  IF j = 0 THEN [status |-> "ZeroDivisionError", num |-> 0, den |-> 1]
  ELSE IF j < 0 THEN [status |-> "nan", num |-> j, den |-> j]
  ELSE [status |-> "angle", num |-> j, den |-> j]
find_angle(j) ==
  IF j = 0 THEN [status |-> "ZeroDivisionError", num |-> 0, den |-> 1]
  ELSE IF j < 0 THEN [status |-> "nan", num |-> j - 1, den |-> j]
  ELSE [status |-> "angle", num |-> j - 1, den |-> j]

\* variant: control and target of cry exchanged
cry_swapped(theta, c, t) ==
  LET co == SurdSqrt(theta.num * theta.den)
      si == SurdNeg(SurdSqrt((theta.den - theta.num) * theta.den))
  IN Gate({t}, c, << <<CReal(co), CReal(SurdNeg(si))>>, <<CReal(si), CReal(co)>> >>,
          theta.den)
\* QuantumCircuit.cry(theta, c, t) with theta = -2*arccos(sqrt(num/den)):
\* RY(theta) = [[cos, -sin], [sin, cos]] of theta/2, where
\* cos = sqrt(num/den) = sqrt(num*den)/den, sin = -sqrt((den-num)*den)/den
cry(theta, c, t) ==
  LET co == SurdSqrt(theta.num * theta.den)
      si == SurdNeg(SurdSqrt((theta.den - theta.num) * theta.den))
  IN Gate({c}, t, << <<CReal(co), CReal(SurdNeg(si))>>, <<CReal(si), CReal(co)>> >>,
          theta.den)

\* concatenation of a sequence of gate sequences
RECURSIVE Flatten(_)
Flatten(ss) == IF ss = << >> THEN << >> ELSE Head(ss) \o Flatten(Tail(ss))

\* ------------------------------------------------------ storage_algorithm
\* variant: the schedule indexed by i instead of len_ps + 1 - i
controlled_si_by_index(u, i, len_ps) == <<cry(find_angle(i), u[1], u[2])>>
controlled_si(u, i, len_ps) == <<cry(find_angle(len_ps + 1 - i), u[1], u[2])>>

\* the gates one iteration of the loop of storage_algorithm appends, for the
\* pattern val at the 1-based position i of a list of len_ps patterns
storage_iteration(val, i, len_ps, pr, u, m) ==
  LET n == Len(pr)
      rev(j) == n + 1 - j
  IN Flatten(<<
       \* Step 0
       apply_pauli_from_int(val, pr).gates,
       \* Step 1
       [j \in 1..n |-> ccx(pr[j], u[2], m[j])],
       \* Step 2
       Flatten([j \in 1..n |-> <<cx(pr[j], m[j]), x(m[j])>>]),
       \* Step 3
       <<mcx(m, u[1])>>,
       \* Step 4
       controlled_si(u, i, len_ps),
       \* Step 5
       <<mcx(m, u[1])>>,
       \* Step 6
       Flatten([j \in 1..n |-> <<x(m[rev(j)]), cx(pr[rev(j)], m[rev(j)])>>]),
       \* Step 7
       [j \in 1..n |-> ccx(pr[rev(j)], u[2], m[rev(j)])],
       \* Step 8
       apply_pauli_from_int(val, pr).gates
     >>)

\* ---------------------------------------------------- retrieval_algorithm
u_gate(qubit, n) == <<x(qubit), p(Angle(1, 2 * n), qubit), x(qubit)>>
\* variant: the controlled phase without the cx gates around it
cu_squared_bare(control, target, n) == <<cp(Angle(-1, n), control, target)>>
\* variant: the angle -pi/(2n) of U^-1 instead of -pi/n of U^-2
cu_squared_half_angle(control, target, n) ==
  <<cx(control, target), cp(Angle(-1, 2 * n), control, target), cx(control, target)>>
\* variant: the closing cx left out
cu_squared_no_restore(control, target, n) ==
  <<cx(control, target), cp(Angle(-1, n), control, target)>>
cu_squared(control, target, n) ==
  <<cx(control, target), cp(Angle(-1, n), control, target), cx(control, target)>>
apply_u_and_cu(m, c) ==
  LET n == Len(m)
  IN Flatten([k \in 1..n |-> u_gate(m[k], n)])
       \o Flatten([k \in 1..n |-> cu_squared(c, m[k], n)])
retrieval_algorithm(i, m, c) ==
  LET n == Len(i)
      rev(j) == n + 1 - j
  IN Flatten(<<
       <<h(c)>>,
       Flatten([j \in 1..n |-> <<cx(i[j], m[j]), x(m[j])>>]),
       apply_u_and_cu(m, c),
       Flatten([j \in 1..n |-> <<x(m[rev(j)]), cx(i[rev(j)], m[rev(j)])>>]),
       <<h(c)>>
     >>)

\* ------------------------------------------------------------ bv_algorithm
\* h on every qubit of i, retrieval_algorithm, h on every qubit of i again;
\* degree_threshold is not read
bv_algorithm(i, m, c, degree_threshold) ==
  Flatten(<<
    [k \in 1..Len(i) |-> h(i[k])],
    retrieval_algorithm(i, m, c),
    [k \in 1..Len(i) |-> h(i[k])]
  >>)

\* ----------------------------------------------------- run_quantum_memory
\* QuantumCircuit(i, u, m): qubits 0..2 are i, 3..4 are u, 5..7 are m
i_reg == [k \in 1..Width |-> k - 1]
u_reg == <<Width, Width + 1>>
m_reg == [k \in 1..Width |-> Width + 1 + k]
\* the circuit after qc.x(u[1]), from the all-zero state
InitialState == Run(BasisState(0), <<x(u_reg[2])>>)

\* the value a basis index holds in a register (first qubit least significant)
RECURSIVE RegValFrom(_, _, _)
RegValFrom(b, reg, k) ==
  IF k > Len(reg) THEN 0 ELSE Bit(b, reg[k]) * 2 ^ (k - 1) + RegValFrom(b, reg, k + 1)
RegVal(b, reg) == RegValFrom(b, reg, 1)

\* ------------------------------------------------------- probabilities
\* Statevector.probabilities: the probability of a set B of basis indices,
\* as a surd numerator over an integer denominator in lowest terms
RECURSIVE Norm2Over(_, _)
Norm2Over(S, B) ==
  IF B = {} THEN SurdZero
  ELSE LET b == CHOOSE y \in B : TRUE
       IN SurdAdd(CNorm2(AmpOf(S, b)), Norm2Over(S, B \ {b}))
Frac(num, den) ==
  LET g == GCD(den, SurdGcd(num))
  IN IF g = 0 THEN [num |-> num, den |-> den]
     ELSE [num |-> SurdDiv(num, g), den |-> den \div g]
Prob(S, B) == Frac(Norm2Over(S, B \cap Support(S)), S.den * S.den)
FracInt(n, d) == Frac(SurdInt(n), d)
ProbWhere(S, reg, v) == Prob(S, {b \in Support(S) : RegVal(b, reg) = v})
\* marginal distribution over a register: value |-> probability, on the
\* values of nonzero probability
Marginal(S, reg) ==
  [v \in {RegVal(b, reg) : b \in Support(S)} |-> ProbWhere(S, reg, v)]
\* a < b for two fractions with rational numerators
FracLess(a, b) == SurdRat(a.num) * b.den < SurdRat(b.num) * a.den
FracIsRational(a) == SurdIsRational(a.num)
\* |a - 1/2| as a fraction, for rational a
DistFromHalf(a) == FracInt(Abs(2 * SurdRat(a.num) - a.den), 2 * a.den)

\* ---------------------------------------------------------------- state
VARIABLES
  qc,      \* the state vector of the circuit built so far
  ps,      \* the list of patterns handed to storage_algorithm
  idx,     \* number of iterations of storage_algorithm completed
  pc,      \* position of the driver: "store", "stored", "query", "done",
           \* or "bv_done" after bv_algorithm
  query,   \* the value loaded into register i before retrieval
  cw,      \* width of the register handed to apply_pauli_from_int
  cval,    \* value handed to apply_pauli_from_int
  cinit,   \* content of that register before the first call
  ncalls,  \* calls of apply_pauli_from_int made
  cerr,    \* a call of apply_pauli_from_int raised
  angj,    \* argument of the call of find_angle
  ang      \* result of the call of find_angle, "none" before it

vars == <<qc, ps, idx, pc, query, cw, cval, cinit, ncalls, cerr, angj, ang>>

Patterns == 0..(2 ^ Width - 1)
PatternLists(maxlen) == UNION {[1..n -> Patterns] : n \in 1..maxlen}
NoAngle == [status |-> "none", num |-> 0, den |-> 1]

\* --------------------------------------------- run_quantum_memory (driver)
\* the driver before storage_algorithm is called on the list ps
DriverStart ==
  /\ qc = InitialState
  /\ idx = 0
  /\ pc = "store"
  /\ query = 0
  /\ cw = 0 /\ cval = 0 /\ cinit = 0 /\ ncalls = 0 /\ cerr = FALSE
  /\ angj = 0 /\ ang = NoAngle

Init ==
  /\ ps \in PatternLists(MaxRecall)
  /\ DriverStart

\* the state after the first k iterations of storage_algorithm(qc, list, i, u, m)
RECURSIVE StoredState(_, _)
StoredState(list, k) ==
  IF k = 0 THEN InitialState
  ELSE Run(StoredState(list, k - 1),
           storage_iteration(list[k], k, Len(list), i_reg, u_reg, m_reg))

\* one iteration of the loop of storage_algorithm
StoreIteration ==
  /\ pc = "store"
  /\ idx < Len(ps)
  /\ qc' = Run(qc, storage_iteration(ps[idx + 1], idx + 1, Len(ps), i_reg, u_reg, m_reg))
  /\ idx' = idx + 1
  /\ pc' = IF idx + 1 = Len(ps) THEN "stored" ELSE "store"
  /\ UNCHANGED <<ps, query, cw, cval, cinit, ncalls, cerr, angj, ang>>

\* the driver loads a query into register i by bit-flips (qc.x(i[2]) for 4)
LoadQuery(q) ==
  /\ pc = "stored"
  /\ qc' = Run(qc, apply_pauli_from_int(q, i_reg).gates)
  /\ query' = q
  /\ pc' = "query"
  /\ UNCHANGED <<ps, idx, cw, cval, cinit, ncalls, cerr, angj, ang>>

\* retrieval_algorithm(qc, i, m, u[0])
Retrieve ==
  /\ pc = "query"
  /\ qc' = Run(qc, retrieval_algorithm(i_reg, m_reg, u_reg[1]))
  /\ pc' = "done"
  /\ UNCHANGED <<ps, idx, query, cw, cval, cinit, ncalls, cerr, angj, ang>>

\* bv_algorithm(qc, i, m, u[0], degree_threshold) in place of retrieval_algorithm
RetrieveBV ==
  /\ pc = "query"
  /\ qc' = Run(qc, bv_algorithm(i_reg, m_reg, u_reg[1], 0))
  /\ pc' = "bv_done"
  /\ UNCHANGED <<ps, idx, query, cw, cval, cinit, ncalls, cerr, angj, ang>>

Next ==
  \/ StoreIteration
  \/ \E q \in Patterns : LoadQuery(q)
  \/ Retrieve
  \/ RetrieveBV

Spec == Init /\ [][Next]_vars

\* storage_algorithm alone, on longer lists
InitStore ==
  /\ ps \in PatternLists(MaxN)
  /\ DriverStart

NextStore == StoreIteration

SpecStore == InitStore /\ [][NextStore]_vars

\* ------------------------------ apply_pauli_from_int and find_angle alone
CodecQubits(w) == [k \in 1..w |-> k - 1]

InitPrim ==
  /\ cw \in 1..MaxWidth
  /\ cval \in 0..(2 ^ (MaxWidth + 1) - 1)
  /\ cinit \in 0..(2 ^ cw - 1)
  /\ qc = BasisState(cinit)
  /\ ncalls = 0
  /\ cerr = FALSE
  /\ angj = 0 /\ ang = NoAngle
  /\ ps = << >> /\ idx = 0 /\ pc = "prim" /\ query = 0

\* apply_pauli_from_int(qc, cval, qubits) on a register of cw qubits; a call
\* that raises keeps the gates appended before the exception
ApplyPauli ==
  /\ pc = "prim"
  /\ ncalls < 2
  /\ ~cerr
  /\ LET r == apply_pauli_from_int(cval, CodecQubits(cw))
     IN /\ qc' = Run(qc, r.gates)
        /\ cerr' = r.err
  /\ ncalls' = ncalls + 1
  /\ UNCHANGED <<ps, idx, pc, query, cw, cval, cinit, angj, ang>>

CallFindAngle(j) ==
  /\ pc = "prim"
  /\ ang = NoAngle
  /\ angj' = j
  /\ ang' = find_angle(j)
  /\ UNCHANGED <<qc, ps, idx, pc, query, cw, cval, cinit, ncalls, cerr>>

NextPrim ==
  \/ ApplyPauli
  \/ \E j \in (-MaxJ)..MaxJ : CallFindAngle(j)

SpecPrim == InitPrim /\ [][NextPrim]_vars

\* the content of the register of the codec run (the circuit is in a basis state)
CodecBits == CHOOSE b \in Support(qc) : TRUE

\* the driver's run: store list, load the query q into i, retrieve on u[0]
Recalled(list, q) ==
  Run(Run(StoredState(list, Len(list)), apply_pauli_from_int(q, i_reg).gates),
      retrieval_algorithm(i_reg, m_reg, u_reg[1]))

\* ------------------------------------------------------------ observations
Distinct(list) == \A a, b \in 1..Len(list) : a # b => list[a] # list[b]
StoredSoFar == {ps[k] : k \in 1..idx}
AfterIteration == pc \in {"store", "stored"} /\ idx >= 1
\* probability of reading the control qubit u[0] as v
ProbControl(S, v) == ProbWhere(S, <<u_reg[1]>>, v)
\* the query that differs from the pattern v in every bit
AllDiffer(v) == 2 ^ Width - 1 - v
\* a list of patterns in the opposite order
OtherOrder(list) == [k \in 1..Len(list) |-> list[Len(list) + 1 - k]]
\* the registers i and m read as one register
im_reg == i_reg \o m_reg
One == FracInt(1, 1)
Zero == FracInt(0, 1)

\* ------------------------------------------------------------------ C1
\* C1 (as stated): after each completed iteration of storage_algorithm every
\* basis state of nonzero amplitude has the M register all zero.
C1_ScratchReturnsToZero ==
  AfterIteration => \A b \in Support(qc) : RegVal(b, m_reg) = 0

\* C1 (amended): after each completed iteration every basis state of nonzero
\* amplitude has P = 0 and u0 = 0; M is all zero in the branch u1 = 1, and in
\* the branch u1 = 0 M holds one of the patterns stored so far.
C1_MemoryHoldsStored ==
  AfterIteration =>
    \A b \in Support(qc) :
      /\ RegVal(b, i_reg) = 0
      /\ Bit(b, u_reg[1]) = 0
      /\ Bit(b, u_reg[2]) = 1 => RegVal(b, m_reg) = 0
      /\ Bit(b, u_reg[2]) = 0 => RegVal(b, m_reg) \in StoredSoFar
C1_Witness ==
  /\ AfterIteration
  /\ \E b \in Support(qc) : Bit(b, u_reg[2]) = 0 /\ RegVal(b, m_reg) # 0
  /\ \E b \in Support(qc) : Bit(b, u_reg[2]) = 1

\* ------------------------------------------------------------------ C2
\* C2: for a list of N pairwise distinct patterns, storage ends in a
\* normalized state with P = 0, u0 = 0, u1 = 0 everywhere, where M holds each
\* stored pattern with probability exactly 1/N and nothing else.
C2_UniformSuperposition ==
  (pc = "stored" /\ Distinct(ps)) =>
    /\ Prob(qc, Support(qc)) = One
    /\ \A b \in Support(qc) :
         RegVal(b, i_reg) = 0 /\ RegVal(b, u_reg) = 0
    /\ Marginal(qc, m_reg) = [v \in {ps[k] : k \in 1..Len(ps)} |-> FracInt(1, Len(ps))]
C2_Witness ==
  /\ pc = "stored" /\ Distinct(ps) /\ Len(ps) >= 3
  /\ Cardinality(Support(qc)) = Len(ps)

\* ------------------------------------------------------------------ C3
\* C3: for a value that fits the register, apply_pauli_from_int flips qubit k
\* exactly when bit k of the value is 1, and a second call with the same
\* value restores the register.
C3_CodecSelfInverse ==
  (pc = "prim" /\ cval < 2 ^ cw) =>
    /\ ~cerr
    /\ Cardinality(Support(qc)) = 1
    /\ ncalls = 1 =>
         \A k \in 0..(cw - 1) :
           (Bit(CodecBits, k) # Bit(cinit, k)) <=> (Bit(cval, k) = 1)
    /\ ncalls = 2 => CodecBits = cinit
C3_Witness ==
  /\ pc = "prim" /\ cw = 3 /\ cval = 6 /\ cinit = 1 /\ ncalls = 2
  /\ CodecBits = cinit

\* ------------------------------------------------------------------ C4
\* C4: a value of 2^w or more makes apply_pauli_from_int fail before any
\* bit-flip is applied: the call raises and the register is unchanged.
C4_OverflowRejectedEagerly ==
  (pc = "prim" /\ cval >= 2 ^ cw /\ ncalls >= 1) =>
    cerr /\ qc = BasisState(cinit)

\* ------------------------------------------------------------------ C5
\* C5: find_angle(j) rejects every j < 1 with an error and returns an angle
\* only for j >= 1.
C5_AngleDomainChecked ==
  (pc = "prim" /\ ang # NoAngle) =>
    IF angj < 1 THEN ang.status \notin {"angle", "nan"}
    ELSE ang.status = "angle"

\* ------------------------------------------------------------------ C6
\* C6: after storing the single pattern p and retrieving with the query p,
\* the control qubit reads 0 with strictly larger probability than 1.
C6_RecallSkew ==
  (pc = "done" /\ Len(ps) = 1 /\ query = ps[1]) =>
    /\ FracIsRational(ProbControl(qc, 0)) /\ FracIsRational(ProbControl(qc, 1))
    /\ FracLess(ProbControl(qc, 1), ProbControl(qc, 0))
C6_Witness ==
  /\ pc = "done" /\ ps = <<5>> /\ query = 5
  /\ ProbControl(qc, 0) # Zero

\* ------------------------------------------------------------------ C7
\* C7 (as stated): with a query that differs from the single stored pattern
\* in every bit, P(control = 0) is strictly closer to 1/2 than with the
\* matching query.
C7_AllDifferCloserToHalf ==
  (pc = "done" /\ Len(ps) = 1 /\ query = AllDiffer(ps[1])) =>
    FracLess(DistFromHalf(ProbControl(qc, 0)),
             DistFromHalf(ProbControl(Recalled(ps, ps[1]), 0)))

\* C7 (amended): with a query that differs from the single stored pattern in
\* every bit P(control = 0) is exactly 0, and with the matching query it is
\* exactly 1: the all-differ probability is strictly smaller, and the two are
\* equally far from 1/2.
C7_AllDifferReadsOne ==
  (pc = "done" /\ Len(ps) = 1 /\ query = AllDiffer(ps[1])) =>
    /\ ProbControl(qc, 0) = Zero
    /\ ProbControl(Recalled(ps, ps[1]), 0) = One
    /\ DistFromHalf(ProbControl(qc, 0))
         = DistFromHalf(ProbControl(Recalled(ps, ps[1]), 0))
C7_Witness ==
  /\ pc = "done" /\ ps = <<5>> /\ query = 2
  /\ ProbControl(qc, 1) = One

\* ------------------------------------------------------------------ C8
\* C8 (as stated): storing [1, 4] and storing [4, 1] give different marginal
\* distributions of (u0, u1) after at least one iteration, while the M values
\* of nonzero probability at the end are {1, 4} for both.
C8_OrderChangesUWeights ==
  (pc = "stored" /\ ps = <<1, 4>>) =>
    /\ \E k \in 1..Len(ps) :
         Marginal(StoredState(ps, k), u_reg)
           # Marginal(StoredState(OtherOrder(ps), k), u_reg)
    /\ DOMAIN Marginal(qc, m_reg) = {1, 4}
    /\ DOMAIN Marginal(StoredState(OtherOrder(ps), Len(ps)), m_reg) = {1, 4}

\* C8 (amended): storing [1, 4] and storing [4, 1] give the same marginal
\* distribution of (u0, u1) after every iteration; after the first iteration
\* the two states differ in the M value of the branch u1 = 0 (the first
\* pattern of each order), and both end in the same state, with M values
\* {1, 4}.
C8_OrderKeepsUWeights ==
  (AfterIteration /\ ps \in {<<1, 4>>, <<4, 1>>}) =>
    /\ Marginal(qc, u_reg) = Marginal(StoredState(OtherOrder(ps), idx), u_reg)
    /\ idx = 1 =>
         /\ DOMAIN Marginal(qc, m_reg) = {0, ps[1]}
         /\ DOMAIN Marginal(StoredState(OtherOrder(ps), idx), m_reg) = {0, ps[2]}
    /\ pc = "stored" =>
         /\ DOMAIN Marginal(qc, m_reg) = {1, 4}
         /\ qc = StoredState(OtherOrder(ps), Len(ps))
C8_Witness ==
  /\ pc = "stored" /\ ps = <<4, 1>>
  /\ DOMAIN Marginal(qc, m_reg) = {1, 4}

\* ------------------------------------------------------------------ C9
\* C9: retrieval_algorithm leaves the registers i and m as they were: every
\* branch it produces carries an (I, M) value present before the call, and the
\* marginal distribution over (I, M) is the same before and after.
C9_RetrievalFrame ==
  [][(pc = "query" /\ pc' = "done") =>
       /\ Marginal(qc', im_reg) = Marginal(qc, im_reg)
       /\ \A b \in Support(qc') : ClearBit(b, u_reg[1]) \in Support(qc)]_vars
C9_Witness ==
  /\ pc = "done" /\ Len(ps) = 2 /\ Distinct(ps)
  /\ ProbControl(qc, 0) \notin {Zero, One}

\* ------------------------------------------------------------------ C10
\* C10 (as stated): for every non-empty list, repeated values allowed,
\* storage ends with u0 = 0 and u1 = 0 in every basis state of nonzero
\* amplitude.
C10_ProcessingBranchConsumed ==
  pc = "stored" => \A b \in Support(qc) : RegVal(b, u_reg) = 0

\* C10 (amended): for every non-empty list whose last value does not occur
\* earlier in the list (earlier values may repeat), storage ends with u0 = 0
\* and u1 = 0 in every basis state of nonzero amplitude.
C10_ConsumedWhenLastIsNew ==
  (pc = "stored" /\ \A k \in 1..(Len(ps) - 1) : ps[k] # ps[Len(ps)]) =>
    \A b \in Support(qc) : RegVal(b, u_reg) = 0
C10_Witness ==
  /\ pc = "stored" /\ Len(ps) >= 3 /\ ps[1] = ps[2] /\ ps[3] # ps[1]
  /\ \A b \in Support(qc) : RegVal(b, u_reg) = 0

====
